---- MODULE Spec2Model ----
(***************************************************************************)
(* Manchester triage engine and facility queue of OndeAtende               *)
(* (backend/apps/triage): the priority calculation of manchester.py, the   *)
(* queue position and wait estimate of models.py, and the REST and         *)
(* WebSocket operations of serializers.py, views.py and consumers.py that  *)
(* create and mutate triage sessions.                                      *)
(***************************************************************************)
EXTENDS Integers, Sequences, FiniteSets, TLC

VARIABLES
    sessions,    \* the triage_sessions table: row i is the session with pk i
    occupancy,   \* Facility.current_occupancy_percent of each facility
    clock,       \* timezone.now(), in ticks of the clock's resolution
    ret,         \* the response of the last operation
    calls,       \* the calculate_priority invocations of the engine run
    facilities,  \* the facilities table, in the order a query returns it
    router,      \* TriageRouter: the class attribute COMPLAINT_SPECIALTY_MAP
    requests     \* the call_patient requests in progress, each with the row
                 \* it has read

vars == <<sessions, occupancy, clock, ret, calls, facilities, router, requests>>

(***************************************************************************)
(* Bounds of the model.                                                    *)
(***************************************************************************)
MaxSessions == 2
MaxClock == 1

(***************************************************************************)
(* TriagePriority: the enum members and the rank value[0] of each.         *)
(***************************************************************************)
TriagePriority == {"RED", "ORANGE", "YELLOW", "GREEN", "BLUE"}

Rank(p) ==
    CASE p = "RED" -> 1
      [] p = "ORANGE" -> 2
      [] p = "YELLOW" -> 3
      [] p = "GREEN" -> 4
      [] p = "BLUE" -> 5

(***************************************************************************)
(* Condition strings are sequences of characters.  A vital sign value is   *)
(* a number, kept in tenths, or a value of another JSON type (a string).   *)
(***************************************************************************)
Num(n) == [kind |-> "num", tenths |-> 10 * n]
Str == [kind |-> "str", tenths |-> 0]

IsOpChar(c) == c \in {"<", ">", "="}
IsDigit(c) == c \in {"0", "1", "2", "3", "4", "5", "6", "7", "8", "9"}

DigitVal(c) ==
    CASE c = "0" -> 0 [] c = "1" -> 1 [] c = "2" -> 2 [] c = "3" -> 3
      [] c = "4" -> 4 [] c = "5" -> 5 [] c = "6" -> 6 [] c = "7" -> 7
      [] c = "8" -> 8 [] c = "9" -> 9

\* the length of the longest prefix of s[from..] made of characters of kind P
RECURSIVE RunLen(_, _, _)
RunLen(s, from, digits) ==
    IF from > Len(s) THEN 0
    ELSE IF (digits /\ IsDigit(s[from])) \/ (~digits /\ IsOpChar(s[from]))
         THEN 1 + RunLen(s, from + 1, digits)
         ELSE 0

RECURSIVE DigitsVal(_, _, _)
DigitsVal(s, from, n) ==
    IF n = 0 THEN 0
    ELSE DigitsVal(s, from, n - 1) * 10 + DigitVal(s[from + n - 1])

\* re.match(r'([<>=]+)(\d+\.?\d*)', condition): the match anchors at the start
\* only; group 1 is the operator, group 2 the threshold (float(), in tenths).
ReMatch(condition) ==
    LET nOp == RunLen(condition, 1, FALSE)
        nInt == RunLen(condition, nOp + 1, TRUE)
        dot == nOp + nInt + 1
        hasFrac == /\ dot + 1 <= Len(condition)
                   /\ condition[dot] = "."
                   /\ IsDigit(condition[dot + 1])
    IN  IF nOp = 0 \/ nInt = 0
        THEN [matched |-> FALSE, operator |-> <<>>, threshold |-> 0]
        ELSE [matched |-> TRUE,
              operator |-> SubSeq(condition, 1, nOp),
              threshold |-> DigitsVal(condition, nOp + 1, nInt) * 10
                            + (IF hasFrac THEN DigitVal(condition[dot + 1]) ELSE 0)]

\* value < threshold and the like raise TypeError for a str against a float;
\* == between a str and a float is False.
Compare(value, op, threshold) ==
    IF value.kind # "num"
    THEN IF op = "==" THEN "False" ELSE "TypeError"
    ELSE LET v == value.tenths
             b == CASE op = "<" -> v < threshold
                    [] op = "<=" -> v <= threshold
                    [] op = ">" -> v > threshold
                    [] op = ">=" -> v >= threshold
                    [] op = "==" -> v = threshold
         IN IF b THEN "True" ELSE "False"

OperatorName(chars) ==
    CASE chars = <<"<">> -> "<"
      [] chars = <<"<", "=">> -> "<="
      [] chars = <<">">> -> ">"
      [] chars = <<">", "=">> -> ">="
      [] chars = <<"=", "=">> -> "=="
      [] OTHER -> "other"

\* _evaluate_condition: "True", "False" or the exception it raises
EvaluateCondition(value, condition) ==
    LET m == ReMatch(condition)
        op == OperatorName(m.operator)
    IN  IF ~m.matched THEN "False"
        ELSE IF op = "other" THEN "False"
        ELSE Compare(value, op, m.threshold)

(***************************************************************************)
(* The str operations _check_vital_signs_criteria uses: the substring      *)
(* test `x in s`, s.split(sep) and s.strip().                              *)
(***************************************************************************)
StartsAt(s, sub, i) ==
    /\ i + Len(sub) - 1 <= Len(s)
    /\ \A k \in 1..Len(sub) : s[i + k - 1] = sub[k]

Contains(s, sub) == \E i \in 1..Len(s) : StartsAt(s, sub, i)

RECURSIVE SplitFrom(_, _, _, _)
SplitFrom(s, sep, i, start) ==
    IF i > Len(s) THEN <<SubSeq(s, start, Len(s))>>
    ELSE IF StartsAt(s, sep, i)
         THEN <<SubSeq(s, start, i - 1)>>
              \o SplitFrom(s, sep, i + Len(sep), i + Len(sep))
         ELSE SplitFrom(s, sep, i + 1, start)

Split(s, sep) == SplitFrom(s, sep, 1, 1)

RECURSIVE Strip(_)
Strip(s) ==
    IF s = <<>> THEN s
    ELSE IF Head(s) = " " THEN Strip(Tail(s))
    ELSE IF s[Len(s)] = " " THEN Strip(SubSeq(s, 1, Len(s) - 1))
    ELSE s

OrWord == <<"o", "r">>
AndWord == <<"a", "n", "d">>
OrSep == <<" ", "o", "r", " ">>
AndSep == <<" ", "a", "n", "d", " ">>

\* any(self._evaluate_condition(value, c.strip()) for c in conditions)
RECURSIVE AnyCondition(_, _)
AnyCondition(value, conditions) ==
    IF conditions = <<>> THEN "False"
    ELSE LET r == EvaluateCondition(value, Strip(Head(conditions)))
         IN IF r = "False" THEN AnyCondition(value, Tail(conditions)) ELSE r

\* all(self._evaluate_condition(value, c.strip()) for c in conditions)
RECURSIVE AllConditions(_, _)
AllConditions(value, conditions) ==
    IF conditions = <<>> THEN "True"
    ELSE LET r == EvaluateCondition(value, Strip(Head(conditions)))
         IN IF r = "True" THEN AllConditions(value, Tail(conditions)) ELSE r

\* Variant that evaluates only the first part of an `or` condition
ConditionHoldsFirstOnly(value, condition) ==
    IF Contains(condition, OrWord)
    THEN EvaluateCondition(value, Strip(Head(Split(condition, OrSep))))
    ELSE IF Contains(condition, AndWord)
    THEN AllConditions(value, Split(condition, AndSep))
    ELSE EvaluateCondition(value, condition)

\* the body of the loop of _check_vital_signs_criteria for one str condition
ConditionHolds(value, condition) ==
    IF Contains(condition, OrWord)
    THEN AnyCondition(value, Split(condition, OrSep))
    ELSE IF Contains(condition, AndWord)
    THEN AllConditions(value, Split(condition, AndSep))
    ELSE EvaluateCondition(value, condition)

\* Variant that asks every criterion whose measurement is supplied to hold
CheckVitalSignsCriteriaAll(vital_signs, criteria) ==
    LET supplied == {k \in DOMAIN criteria :
                        criteria[k].param \in DOMAIN vital_signs
                        /\ criteria[k].isStr}
    IN  IF /\ supplied # {}
           /\ \A k \in supplied :
                 ConditionHolds(vital_signs[criteria[k].param],
                                criteria[k].condition) = "True"
        THEN "True" ELSE "False"

\* Variant that returns False at the first measurement that is absent
\* (`return False` in place of `continue`)
RECURSIVE CheckVitalSignsCriteriaStopAtAbsent(_, _)
CheckVitalSignsCriteriaStopAtAbsent(vital_signs, criteria) ==
    IF criteria = <<>> THEN "False"
    ELSE LET item == Head(criteria)
             rest == Tail(criteria)
         IN  IF item.param \notin DOMAIN vital_signs
             THEN "False"
             ELSE IF ~item.isStr
             THEN CheckVitalSignsCriteriaStopAtAbsent(vital_signs, rest)
             ELSE LET r == ConditionHolds(vital_signs[item.param], item.condition)
                  IN IF r = "False"
                     THEN CheckVitalSignsCriteriaStopAtAbsent(vital_signs, rest)
                     ELSE r

\* _check_vital_signs_criteria: criteria is the dict as the sequence of its
\* items, in insertion order; vital_signs is a function on the names given.
\* The result is "True", "False" or the exception raised.
RECURSIVE CheckVitalSignsCriteria(_, _)
CheckVitalSignsCriteria(vital_signs, criteria) ==
    IF criteria = <<>> THEN "False"
    ELSE LET item == Head(criteria)
             rest == Tail(criteria)
         IN  IF item.param \notin DOMAIN vital_signs
             THEN CheckVitalSignsCriteria(vital_signs, rest)
             ELSE IF ~item.isStr
             THEN CheckVitalSignsCriteria(vital_signs, rest)
             ELSE LET r == ConditionHolds(vital_signs[item.param], item.condition)
                  IN IF r = "False"
                     THEN CheckVitalSignsCriteria(vital_signs, rest)
                     ELSE r

(***************************************************************************)
(* The catalog.  general_discriminators is the list                        *)
(* _initialize_general_discriminators returns, in its order; a             *)
(* discriminator without vital_signs_criteria (None) has the empty         *)
(* sequence, which `if ... and discriminator.vital_signs_criteria` treats  *)
(* alike.  flowcharts is the dict of _initialize_flowcharts, by its keys.  *)
(***************************************************************************)
GeneralDiscriminators == <<
    [id |-> "airway_compromised", description |-> "Via aérea comprometida", priority |-> "RED",
     vital_signs_criteria |-> <<[param |-> "spo2", isStr |-> TRUE, condition |-> <<"<", "9", "0">>]>>],
    [id |-> "inadequate_breathing", description |-> "Respiração inadequada", priority |-> "RED",
     vital_signs_criteria |-> <<[param |-> "respiratory_rate", isStr |-> TRUE, condition |-> <<"<", "1", "0", " ", "o", "r", " ", ">", "3", "6">>], [param |-> "spo2", isStr |-> TRUE, condition |-> <<"<", "9", "0">>]>>],
    [id |-> "shock", description |-> "Sinais de choque", priority |-> "RED",
     vital_signs_criteria |-> <<[param |-> "systolic_bp", isStr |-> TRUE, condition |-> <<"<", "9", "0">>], [param |-> "heart_rate", isStr |-> TRUE, condition |-> <<">", "1", "2", "0">>], [param |-> "capillary_refill", isStr |-> TRUE, condition |-> <<">", "2">>]>>],
    [id |-> "unresponsive", description |-> "Não responsivo", priority |-> "RED",
     vital_signs_criteria |-> <<[param |-> "gcs", isStr |-> TRUE, condition |-> <<"<", "9">>]>>],
    [id |-> "severe_pain", description |-> "Dor severa", priority |-> "ORANGE",
     vital_signs_criteria |-> <<[param |-> "pain_scale", isStr |-> TRUE, condition |-> <<">", "=", "8">>]>>],
    [id |-> "altered_consciousness", description |-> "Alteração da consciência", priority |-> "ORANGE",
     vital_signs_criteria |-> <<[param |-> "gcs", isStr |-> TRUE, condition |-> <<"9", "-", "1", "2">>]>>],
    [id |-> "moderate_pain", description |-> "Dor moderada", priority |-> "YELLOW",
     vital_signs_criteria |-> <<[param |-> "pain_scale", isStr |-> TRUE, condition |-> <<"4", "-", "7">>]>>],
    [id |-> "persistent_vomiting", description |-> "Vômitos persistentes", priority |-> "YELLOW",
     vital_signs_criteria |-> <<>>]
>>

FlowchartIds ==
    {"chest_pain", "shortness_breath", "fever_child", "major_trauma",
     "abdominal_pain", "headache", "pregnancy_labor"}

\* answers.get(discriminator.id, False), as the truth value `if` tests
AnswerGet(answers, id) == IF id \in DOMAIN answers THEN answers[id] ELSE FALSE

\* `if vital_signs and ...`: None and the empty dict are both falsy
Truthy(vital_signs) == DOMAIN vital_signs # {}

\* One iteration of the loop of _check_general_discriminators on the running
\* (highest_priority, reason); raised is the exception that ended the loop.
\* the first half takes the answer, the second the outcome `checked` of
\* _check_vital_signs_criteria
ByAnswer(acc, d, answers) ==
    IF AnswerGet(answers, d.id)
       /\ Rank(d.priority) < Rank(acc.highest_priority)
    THEN [acc EXCEPT !.highest_priority = d.priority,
                     !.reason = d.description]
    ELSE acc

ByVitalSigns(acc, d, checked) ==
    IF checked = "TypeError" THEN [acc EXCEPT !.raised = "TypeError"]
    ELSE IF checked = "True"
            /\ Rank(d.priority) < Rank(acc.highest_priority)
    THEN [acc EXCEPT !.highest_priority = d.priority,
                     !.reason = d.description \o " (sinais vitais)"]
    ELSE acc

GeneralStep(acc, d, answers, vital_signs) ==
    ByVitalSigns(ByAnswer(acc, d, answers), d,
                 IF Truthy(vital_signs) /\ d.vital_signs_criteria # <<>>
                 THEN CheckVitalSignsCriteria(vital_signs, d.vital_signs_criteria)
                 ELSE "False")

RECURSIVE GeneralLoop(_, _, _, _)
GeneralLoop(acc, ds, answers, vital_signs) ==
    IF ds = <<>> \/ acc.raised # "" THEN acc
    ELSE GeneralLoop(GeneralStep(acc, Head(ds), answers, vital_signs),
                     Tail(ds), answers, vital_signs)

\* Variant of _check_general_discriminators that keeps the highest priority
\* of the previous call instead of starting from BLUE
CheckGeneralDiscriminatorsSticky(answers, vital_signs) ==
    GeneralLoop([highest_priority |->
                     IF calls.last # <<>> /\ calls.last[1].outcome.kind = "return"
                     THEN calls.last[1].outcome.priority ELSE "BLUE",
                 reason |-> "Sem sinais de alarme identificados",
                 raised |-> ""],
                GeneralDiscriminators, answers, vital_signs)

\* _check_general_discriminators
CheckGeneralDiscriminators(answers, vital_signs) ==
    GeneralLoop([highest_priority |-> "BLUE",
                 reason |-> "Sem sinais de alarme identificados",
                 raised |-> ""],
                GeneralDiscriminators, answers, vital_signs)

\* _generate_recommendations (vital_signs is not read)
GenerateRecommendations(priority, complaint) ==
    (CASE priority = "RED" ->
            <<"ATENDIMENTO IMEDIATO NECESSÁRIO",
              "Encaminhar para sala de emergência AGORA",
              "Acionar equipe de emergência",
              "Monitorização contínua obrigatória">>
       [] priority = "ORANGE" ->
            <<"Atendimento em até 10 minutos",
              "Reavaliar sinais vitais a cada 10 minutos",
              "Manter em observação próxima",
              "Considerar exames prioritários">>
       [] priority = "YELLOW" ->
            <<"Atendimento em até 60 minutos",
              "Reavaliar se piora dos sintomas",
              "Monitorar sinais vitais a cada 30 minutos">>
       [] priority = "GREEN" ->
            <<"Atendimento em até 120 minutos",
              "Reavaliar se necessário",
              "Orientar sobre sinais de alarme">>
       [] priority = "BLUE" ->
            <<"Atendimento não urgente",
              "Considerar encaminhamento para UBS",
              "Orientações gerais de cuidados">>)
    \o (IF complaint = "chest_pain" /\ priority \in {"RED", "ORANGE"}
        THEN <<"ECG em <10 minutos", "Acesso venoso calibroso",
               "Preparar medicação cardíaca", "Contatar cardiologia">>
        ELSE IF complaint = "major_trauma"
        THEN <<"Protocolo de trauma ativado", "Preparar sala de trauma",
               "Solicitar hemoderivados", "Raio-X e TC prioritários">>
        ELSE <<>>)

\* _get_emergency_recommendations
GetEmergencyRecommendations(reason) ==
    <<"EMERGÊNCIA: " \o reason,
      "ATENDIMENTO IMEDIATO - RISCO DE VIDA",
      "Acionar código vermelho",
      "Preparar sala de ressuscitação",
      "Equipe completa em standby",
      "Via aérea avançada disponível",
      "Acesso venoso central se necessário">>

Returned(priority, reason, recommendations) ==
    [kind |-> "return", exc |-> "", priority |-> priority, reason |-> reason,
     recommendations |-> recommendations]

Raised(exc) ==
    [kind |-> "raise", exc |-> exc, priority |-> "", reason |-> "",
     recommendations |-> <<>>]

\* calculate_priority.  ManchesterTriageSystem defines neither
\* _get_generic_flowchart nor _check_flowchart_discriminators, so the
\* attribute lookups of lines 450 and 453 raise AttributeError: every call
\* whose general result is not RED ends there.
AfterGeneral(g, complaint) ==
    IF g.raised # "" THEN Raised(g.raised)
    ELSE IF g.highest_priority = "RED"
    THEN Returned("RED", g.reason, GetEmergencyRecommendations(g.reason))
    ELSE IF complaint \notin FlowchartIds
    THEN Raised("AttributeError")   \* self._get_generic_flowchart
    ELSE Raised("AttributeError")   \* self._check_flowchart_discriminators

CalculatePriority(input) ==
    AfterGeneral(CheckGeneralDiscriminators(input.discriminator_answers,
                                            input.vital_signs),
                 input.complaint)

(***************************************************************************)
(* The queue: TriageSession rows and the two derived values of models.py.  *)
(***************************************************************************)
Facilities == {"f1", "f2"}

\* Variants of calculate_queue_position with one filter changed
CalculateQueuePositionFifo(tbl, i) ==
    Cardinality({j \in DOMAIN tbl :
        /\ tbl[j].facility = tbl[i].facility
        /\ tbl[j].status = "WAITING"
        /\ tbl[j].arrival_time < tbl[i].arrival_time}) + 1

CalculateQueuePositionLifo(tbl, i) ==
    Cardinality({j \in DOMAIN tbl :
        /\ tbl[j].facility = tbl[i].facility
        /\ tbl[j].status = "WAITING"
        /\ \/ tbl[j].priority_level < tbl[i].priority_level
           \/ /\ tbl[j].priority_level = tbl[i].priority_level
              /\ tbl[j].arrival_time > tbl[i].arrival_time}) + 1

CalculateQueuePositionAllFacilities(tbl, i) ==
    Cardinality({j \in DOMAIN tbl :
        /\ tbl[j].status = "WAITING"
        /\ \/ tbl[j].priority_level < tbl[i].priority_level
           \/ /\ tbl[j].priority_level = tbl[i].priority_level
              /\ tbl[j].arrival_time < tbl[i].arrival_time}) + 1

CalculateQueuePositionAnyStatus(tbl, i) ==
    Cardinality({j \in DOMAIN tbl :
        /\ tbl[j].facility = tbl[i].facility
        /\ \/ tbl[j].priority_level < tbl[i].priority_level
           \/ /\ tbl[j].priority_level = tbl[i].priority_level
              /\ tbl[j].arrival_time < tbl[i].arrival_time}) + 1

\* TriageSession.calculate_queue_position of row i of the table tbl
CalculateQueuePosition(tbl, i) ==
    Cardinality({j \in DOMAIN tbl :
        /\ tbl[j].facility = tbl[i].facility
        /\ tbl[j].status = "WAITING"
        /\ \/ tbl[j].priority_level < tbl[i].priority_level
           \/ /\ tbl[j].priority_level = tbl[i].priority_level
              /\ tbl[j].arrival_time < tbl[i].arrival_time}) + 1

\* avg_times.get(self.priority_level, 30)
AvgTimes(priority_level) ==
    CASE priority_level = 1 -> 5
      [] priority_level = 2 -> 15
      [] priority_level = 3 -> 30
      [] priority_level = 4 -> 45
      [] priority_level = 5 -> 60
      [] OTHER -> 30

\* int(estimated_wait * 1.5) of a non-negative int: the product is exact in
\* a float, and int() truncates it
IntTimesOneAndHalf(n) == (n * 15) \div 10

\* Variant of update_wait_time_estimate with the threshold test >= 90
WaitTimeEstimateFromNinety(tbl, occ, i) ==
    LET ahead_count == CalculateQueuePosition(tbl, i) - 1
        base_time == AvgTimes(tbl[i].priority_level)
        estimated_wait == ahead_count * base_time
    IN  IF occ[tbl[i].facility] >= 90
        THEN IntTimesOneAndHalf(estimated_wait)
        ELSE estimated_wait

\* the value update_wait_time_estimate computes and returns for row i
WaitTimeEstimate(tbl, occ, i) ==
    LET ahead_count == CalculateQueuePosition(tbl, i) - 1
        base_time == AvgTimes(tbl[i].priority_level)
        estimated_wait == ahead_count * base_time
    IN  IF occ[tbl[i].facility] > 90
        THEN IntTimesOneAndHalf(estimated_wait)
        ELSE estimated_wait

\* update_wait_time_estimate: the table after save(update_fields=[...])
UpdateWaitTimeEstimate(tbl, occ, i) ==
    [tbl EXCEPT ![i].estimated_wait_minutes = WaitTimeEstimate(tbl, occ, i)]

\* TriageSessionSerializer.get_estimated_wait, run when a session is
\* serialized: the value put in the response
GetEstimatedWait(tbl, occ, i) ==
    IF tbl[i].status = "WAITING" THEN WaitTimeEstimate(tbl, occ, i) ELSE 0

\* the table after row i has been serialized
Serialized(tbl, occ, i) ==
    IF tbl[i].status = "WAITING" THEN UpdateWaitTimeEstimate(tbl, occ, i) ELSE tbl

\* the table after the rows of the sequence ids have been serialized in turn
RECURSIVE SerializedAll(_, _, _)
SerializedAll(tbl, occ, ids) ==
    IF ids = <<>> THEN tbl
    ELSE SerializedAll(Serialized(tbl, occ, Head(ids)), occ, Tail(ids))

\* the pks of the WAITING rows of facility f, order_by('priority_level',
\* 'arrival_time'); the order among rows equal on both keys is the
\* database's, taken here as pk order (the values written do not depend on it)
Before(tbl, a, b) ==
    \/ tbl[a].priority_level < tbl[b].priority_level
    \/ /\ tbl[a].priority_level = tbl[b].priority_level
       /\ \/ tbl[a].arrival_time < tbl[b].arrival_time
          \/ tbl[a].arrival_time = tbl[b].arrival_time /\ a < b

RECURSIVE Ordered(_, _)
Ordered(tbl, ids) ==
    IF ids = {} THEN <<>>
    ELSE LET first == CHOOSE a \in ids : \A b \in ids \ {a} : Before(tbl, a, b)
         IN <<first>> \o Ordered(tbl, ids \ {first})

WaitingAt(tbl, f) ==
    {i \in DOMAIN tbl : tbl[i].facility = f /\ tbl[i].status = "WAITING"}

NoRet == [op |-> "", id |-> 0, code |-> 0, value |-> 0]

(***************************************************************************)
(* Inputs of the requests.                                                 *)
(***************************************************************************)
NoAnswers == [x \in {} |-> TRUE]
NoVitals == [x \in {} |-> Str]

TriageInput(complaint, answers, vital_signs) ==
    [complaint |-> complaint, discriminator_answers |-> answers,
     vital_signs |-> vital_signs]

\* POST /sessions/ bodies: validate() admits catalog flowcharts only, and
\* VitalSignsSerializer admits integers within its ranges only
CreateInputs ==
    {TriageInput("chest_pain", [x \in {"airway_compromised"} |-> TRUE], NoVitals),
     TriageInput("chest_pain", NoAnswers, [x \in {"heart_rate"} |-> Num(160)]),
     TriageInput("chest_pain", NoAnswers, NoVitals)}

\* the status a create body may carry (the field is writable; default ARRIVAL)
CreateStatuses == {"ARRIVAL", "WAITING"}

\* the status a PUT/PATCH body may carry
UpdateStatuses == {"WAITING"}

\* request.data['type'] of discharge
DischargeTypes == {"DISCHARGED", "TRANSFERRED", "LEFT"}

\* the `updates` of a WebSocket update_triage message, by allowed field
WsUpdates ==
    {[fields |-> {"priority_color", "priority_level"},
      priority_color |-> "ORANGE", priority_level |-> 2],
     [fields |-> {"priority_level"}, priority_color |-> "", priority_level |-> 4]}

Ids == DOMAIN sessions

(***************************************************************************)
(* Operations on the sessions.  The responses are not recorded here.       *)
(***************************************************************************)
Tick ==
    /\ clock < MaxClock
    /\ clock' = clock + 1
    /\ UNCHANGED <<sessions, occupancy, ret, calls, facilities, router, requests>>

\* TriageSessionSerializer.create, then the serialization of the response.
\* An exception of calculate_priority ends the request: nothing is created.
Created(f, st, outcome) ==
    LET id == Len(sessions) + 1
        row == [facility |-> f, status |-> st,
                priority_color |-> outcome.priority,
                priority_level |-> Rank(outcome.priority),
                arrival_time |-> clock, triage_end_time |-> FALSE,
                queue_position |-> 0, estimated_wait_minutes |-> 0]
        created == Append(sessions, row)
        positioned ==
            [created EXCEPT ![id].queue_position =
                                CalculateQueuePosition(created, id)]
        estimated == UpdateWaitTimeEstimate(positioned, occupancy, id)
    IN  IF outcome.kind = "raise"
        THEN sessions
        ELSE Serialized(estimated, occupancy, id)

Create(f, st, input) ==
    /\ Len(sessions) < MaxSessions
    /\ sessions' = Created(f, st, CalculatePriority(input))
    /\ UNCHANGED <<occupancy, clock, ret, calls, facilities, router, requests>>

\* TriageSessionSerializer.update with a status in the body (the priority
\* fields are read-only, so old_priority = priority_color), then the
\* serialization of the response
Update(i, st) ==
    /\ i \in Ids
    /\ sessions' = Serialized([sessions EXCEPT ![i].status = st], occupancy, i)
    /\ UNCHANGED <<occupancy, clock, ret, calls, facilities, router, requests>>

\* GET /sessions/{pk}/: the serialization of one session
Retrieve(i) ==
    /\ i \in Ids
    /\ sessions' = Serialized(sessions, occupancy, i)
    /\ UNCHANGED <<occupancy, clock, ret, calls, facilities, router, requests>>

\* TriageSessionViewSet.queue: serializes every WAITING session of f
Queue(f) ==
    /\ sessions' = SerializedAll(sessions, occupancy,
                                 Ordered(sessions, WaitingAt(sessions, f)))
    /\ UNCHANGED <<occupancy, clock, ret, calls, facilities, router, requests>>

\* TriageSessionViewSet.call_patient: 400 unless the session is WAITING
CallPatient(i) ==
    /\ i \in Ids
    /\ IF sessions[i].status # "WAITING"
       THEN UNCHANGED sessions
       ELSE sessions' = [sessions EXCEPT ![i].status = "IN_CARE"]
    /\ UNCHANGED <<occupancy, clock, ret, calls, facilities, router, requests>>

\* TriageSessionViewSet.discharge
Discharge(i, type) ==
    /\ i \in Ids
    /\ sessions' = [sessions EXCEPT ![i].status = type]
    /\ UNCHANGED <<occupancy, clock, ret, calls, facilities, router, requests>>

\* TriageQueueConsumer._update_triage_session
WsUpdateTriage(i, u) ==
    /\ i \in Ids
    /\ LET set ==
               [sessions EXCEPT
                   ![i].priority_color =
                       IF "priority_color" \in u.fields
                       THEN u.priority_color ELSE @,
                   ![i].priority_level =
                       IF "priority_level" \in u.fields
                       THEN u.priority_level ELSE @,
                   ![i].triage_end_time = TRUE]
       IN  sessions' = [set EXCEPT ![i].queue_position =
                                       CalculateQueuePosition(set, i)]
    /\ UNCHANGED <<occupancy, clock, ret, calls, facilities, router, requests>>

\* TriageQueueConsumer._update_session_status(session_id, 'IN_CARE'), called
\* by handle_call_patient: timezone.now() - None raises TypeError before the
\* save when triage_end_time is null
WsCallPatient(i) ==
    /\ i \in Ids
    /\ IF ~sessions[i].triage_end_time
       THEN UNCHANGED sessions
       ELSE sessions' = [sessions EXCEPT ![i].status = "IN_CARE"]
    /\ UNCHANGED <<occupancy, clock, ret, calls, facilities, router, requests>>

(***************************************************************************)
(* TriageRouter (routing.py).  The functions are modelled as their text    *)
(* defines them.  The file as committed is rejected by the compiler:       *)
(* in _filter_by_urgency the call of lines 136-139 has a positional        *)
(* argument after a keyword argument, and the names `models` (line 117)    *)
(* and `Q` (lines 138, 143) are not imported.  The filters of lines        *)
(* 136-139 and 142-144 are taken as the conjunction of their arguments,    *)
(* which is what QuerySet.filter makes of them.                            *)
(*                                                                         *)
(* A facility row holds the columns the router reads; staffed is the set   *)
(* of specialty codes with a MedicalShift of today in status ACTIVE at     *)
(* the facility, distance_km what calculate_distance_from returns for the  *)
(* caller's coordinates.  Scores are kept in tenths.                       *)
(***************************************************************************)
ComplaintSpecialtyMap ==
    [chest_pain |-> <<"CARDIOLOGIA", "CLINICA_GERAL", "EMERGENCIA">>,
     shortness_breath |-> <<"PNEUMOLOGIA", "CARDIOLOGIA", "EMERGENCIA">>,
     abdominal_pain |-> <<"GASTRO", "CIRURGIA", "CLINICA_GERAL">>,
     headache |-> <<"NEUROLOGIA", "CLINICA_GERAL">>,
     major_trauma |-> <<"ORTOPEDIA", "CIRURGIA", "EMERGENCIA">>,
     fever_child |-> <<"PEDIATRIA", "EMERGENCIA_PEDIATRICA">>,
     pregnancy_labor |-> <<"OBSTETRICIA", "GINECOLOGIA">>]

Elements(seq) == {seq[k] : k \in DOMAIN seq}

\* session.discriminators_answered.get(id), as the truth value `if` tests
Answered(session, id) ==
    /\ id \in DOMAIN session.discriminators_answered
    /\ session.discriminators_answered[id]

\* _get_required_specialties: base_specialties is the list object held by
\* the class dict when the flowchart is a key of it, so append changes the
\* dict's list; the default list is a fresh one.  The result is the list of
\* the distinct codes, kept as a set (only membership is read), with the
\* dict as the call leaves it.
GetRequiredSpecialties(map, session) ==
    LET known == session.manchester_flowchart \in DOMAIN map
        base == IF known THEN map[session.manchester_flowchart]
                ELSE <<"CLINICA_GERAL">>
        appended ==
            base
            \o (IF Answered(session, "cardiac_pain")
                THEN <<"CARDIOLOGIA">> ELSE <<>>)
            \o (IF Answered(session, "neurological_deficit")
                THEN <<"NEUROLOGIA">> ELSE <<>>)
            \o (IF Answered(session, "major_bleeding")
                THEN <<"CIRURGIA">> ELSE <<>>)
    IN  [specialties |-> Elements(appended),
         map |-> IF known
                 THEN [map EXCEPT ![session.manchester_flowchart] = appended]
                 ELSE map]

\* Variant of _filter_by_urgency whose RED branch does not ask for the
\* 'sala_vermelha' resource
UrgencyGateNoRedRoom(f, priority) ==
    /\ f.is_active
    /\ CASE priority = "RED" ->
                /\ f.facility_type \in {"HOSPITAL", "PS"}
                /\ f.is_accepting_emergencies
         [] priority = "ORANGE" ->
                /\ f.facility_type \in {"HOSPITAL", "PS", "UPA"}
                /\ f.is_accepting_emergencies
         [] priority = "YELLOW" ->
                /\ f.facility_type \in {"UPA", "HOSPITAL", "PS"}
                /\ f.is_accepting_emergencies \/ f.is_accepting_walkins
         [] priority \in {"GREEN", "BLUE"} ->
                f.is_accepting_walkins \/ f.is_24h
         [] OTHER -> TRUE

\* the filter _filter_by_urgency applies to a facility for a priority_color
UrgencyGate(f, priority) ==
    /\ f.is_active
    /\ CASE priority = "RED" ->
                /\ f.facility_type \in {"HOSPITAL", "PS"}
                /\ f.is_accepting_emergencies
                /\ "sala_vermelha" \in f.resources
         [] priority = "ORANGE" ->
                /\ f.facility_type \in {"HOSPITAL", "PS", "UPA"}
                /\ f.is_accepting_emergencies
         [] priority = "YELLOW" ->
                /\ f.facility_type \in {"UPA", "HOSPITAL", "PS"}
                /\ f.is_accepting_emergencies \/ f.is_accepting_walkins
         [] priority \in {"GREEN", "BLUE"} ->
                f.is_accepting_walkins \/ f.is_24h
         [] OTHER -> TRUE

\* _filter_by_urgency: the rows of the table that pass, in the table's order
FilterByUrgency(tbl, priority) ==
    SelectSeq(tbl, LAMBDA f : UrgencyGate(f, priority))

\* _filter_by_specialty: the rows with a shift of today, ACTIVE, in one of
\* the specialties
FilterBySpecialty(tbl, specialties) ==
    SelectSeq(tbl, LAMBDA f : f.staffed \cap specialties # {})

NoDistance == [given |-> FALSE, km |-> 0]

\* Variant of _calculate_facility_score whose occupancy tests are three
\* separate `if`s, so that the brackets add up
CalculateFacilityScoreBracketsAdd(f, occ, session, coords, specialties) ==
    LET distance ==
            IF ~coords THEN 0
            ELSE IF session.priority_color = "RED" THEN f.distance_km * 50
            ELSE IF session.priority_color = "ORANGE" THEN f.distance_km * 30
            ELSE f.distance_km * 15
        occupancy_penalty ==
            (IF occ[f.id] > 90 THEN 300 ELSE 0)
            + (IF occ[f.id] > 70 THEN 150 ELSE 0)
            + (IF occ[f.id] > 50 THEN 50 ELSE 0)
        has_specialty == specialties # {} /\ f.staffed \cap specialties # {}
        type_bonus ==
            IF session.priority_color \in {"RED", "ORANGE"}
            THEN (IF f.facility_type = "HOSPITAL" THEN 200
                  ELSE IF f.facility_type = "PS" THEN 150 ELSE 0)
            ELSE IF session.priority_color \in {"GREEN", "BLUE"}
            THEN (IF f.facility_type = "UBS" THEN 100 ELSE 0)
            ELSE 0
        resource_bonus ==
            (IF session.manchester_flowchart = "chest_pain"
                /\ "hemodinamica" \in f.resources THEN 150 ELSE 0)
            + (IF session.manchester_flowchart = "major_trauma"
                  /\ "centro_trauma" \in f.resources THEN 200 ELSE 0)
        score == 1000 - distance - occupancy_penalty
                 + (IF has_specialty THEN 250 ELSE 0)
                 + type_bonus + resource_bonus
        wait_time ==
            IF session.priority_color \in {"RED", "ORANGE"}
               /\ f.average_wait_time_minutes > 10
            THEN 10 ELSE f.average_wait_time_minutes
    IN  [score |-> IF score < 0 THEN 0 ELSE score,
         distance |-> IF coords THEN [given |-> TRUE, km |-> f.distance_km]
                      ELSE NoDistance,
         has_specialty |-> has_specialty,
         wait_time |-> wait_time]

\* _calculate_facility_score: max(0, score) in tenths, and details
CalculateFacilityScore(f, occ, session, coords, specialties) ==
    LET distance ==
            IF ~coords THEN 0
            ELSE IF session.priority_color = "RED" THEN f.distance_km * 50
            ELSE IF session.priority_color = "ORANGE" THEN f.distance_km * 30
            ELSE f.distance_km * 15
        occupancy_penalty ==
            IF occ[f.id] > 90 THEN 300
            ELSE IF occ[f.id] > 70 THEN 150
            ELSE IF occ[f.id] > 50 THEN 50
            ELSE 0
        has_specialty == specialties # {} /\ f.staffed \cap specialties # {}
        type_bonus ==
            IF session.priority_color \in {"RED", "ORANGE"}
            THEN (IF f.facility_type = "HOSPITAL" THEN 200
                  ELSE IF f.facility_type = "PS" THEN 150 ELSE 0)
            ELSE IF session.priority_color \in {"GREEN", "BLUE"}
            THEN (IF f.facility_type = "UBS" THEN 100 ELSE 0)
            ELSE 0
        resource_bonus ==
            (IF session.manchester_flowchart = "chest_pain"
                /\ "hemodinamica" \in f.resources THEN 150 ELSE 0)
            + (IF session.manchester_flowchart = "major_trauma"
                  /\ "centro_trauma" \in f.resources THEN 200 ELSE 0)
        score == 1000 - distance - occupancy_penalty
                 + (IF has_specialty THEN 250 ELSE 0)
                 + type_bonus + resource_bonus
        wait_time ==
            IF session.priority_color \in {"RED", "ORANGE"}
               /\ f.average_wait_time_minutes > 10
            THEN 10 ELSE f.average_wait_time_minutes
    IN  [score |-> IF score < 0 THEN 0 ELSE score,
         distance |-> IF coords THEN [given |-> TRUE, km |-> f.distance_km]
                      ELSE NoDistance,
         has_specialty |-> has_specialty,
         wait_time |-> wait_time]

\* one item of `results`
Scored(f, occ, session, coords, specialties) ==
    LET c == CalculateFacilityScore(f, occ, session, coords, specialties)
    IN  [facility |-> f.id, score |-> c.score, distance_km |-> c.distance,
         estimated_wait_minutes |-> c.wait_time,
         occupancy_percent |-> occ[f.id],
         has_specialty |-> c.has_specialty]

\* list.sort(key=score, reverse=True): stable, so items of equal score keep
\* the order they had
RECURSIVE InsertByScore(_, _)
InsertByScore(sorted, item) ==
    IF sorted = <<>> THEN <<item>>
    ELSE IF Head(sorted).score >= item.score
    THEN <<Head(sorted)>> \o InsertByScore(Tail(sorted), item)
    ELSE <<item>> \o sorted

RECURSIVE SortByScore(_)
SortByScore(items) ==
    IF items = <<>> THEN <<>>
    ELSE InsertByScore(SortByScore(SubSeq(items, 1, Len(items) - 1)),
                       items[Len(items)])

\* scored_facilities[:max_results]
Truncate(items, max_results) ==
    SubSeq(items, 1, IF Len(items) < max_results THEN Len(items) ELSE max_results)

\* steps 2 to 5 of route_patient, given the specialties of step 1
Ranked(tbl, occ, session, coords, max_results, specialties) ==
    LET gated == FilterByUrgency(tbl, session.priority_color)
        candidates == IF specialties # {}
                      THEN FilterBySpecialty(gated, specialties)
                      ELSE gated
        scored == [k \in DOMAIN candidates |->
                      Scored(candidates[k], occ, session, coords, specialties)]
    IN  Truncate(SortByScore(scored), max_results)

\* route_patient: the list it returns, and the class dict as it leaves it
RoutePatient(map, tbl, occ, session, coords, max_results) ==
    LET required == GetRequiredSpecialties(map, session)
    IN  [results |-> Ranked(tbl, occ, session, coords, max_results,
                            required.specialties),
         map |-> required.map]

\* a Facility row with the shifts of today that are ACTIVE
FacilityRow(id, facility_type, emergencies, walkins, is_24h, resources, staffed, km) ==
    [id |-> id, facility_type |-> facility_type, is_active |-> TRUE,
     is_accepting_emergencies |-> emergencies,
     is_accepting_walkins |-> walkins, is_24h |-> is_24h,
     resources |-> resources, staffed |-> staffed, distance_km |-> km,
     average_wait_time_minutes |-> 60]

\* the facilities of the service specifications, in the order a query
\* returns them: a hospital with a red room and a walk-in UPA
ServiceFacilities ==
    <<FacilityRow("f1", "HOSPITAL", TRUE, FALSE, TRUE,
                  {"sala_vermelha"}, {"CARDIOLOGIA"}, 2),
      FacilityRow("f2", "UPA", TRUE, TRUE, TRUE, {}, {"CLINICA_GERAL"}, 2)>>

\* the facilities table: one facility above the 90% threshold, one at it
FacilityOccupancy == [f \in Facilities |-> IF f = "f1" THEN 91 ELSE 90]

NoCalls == [probe |-> <<>>, last |-> <<>>, between |-> FALSE]

Init ==
    /\ sessions = <<>>
    /\ occupancy = FacilityOccupancy
    /\ clock = 0
    /\ ret = NoRet
    /\ calls = NoCalls
    /\ facilities = ServiceFacilities
    /\ router = ComplaintSpecialtyMap
    /\ requests = <<>>

Next ==
    \/ Tick
    \/ \E f \in Facilities, st \in CreateStatuses, input \in CreateInputs :
           Create(f, st, input)
    \/ \E i \in Ids, st \in UpdateStatuses : Update(i, st)
    \/ \E i \in Ids : Retrieve(i)
    \/ \E f \in Facilities : Queue(f)
    \/ \E i \in Ids : CallPatient(i)
    \/ \E i \in Ids, type \in DischargeTypes : Discharge(i, type)
    \/ \E i \in Ids, u \in WsUpdates : WsUpdateTriage(i, u)
    \/ \E i \in Ids : WsCallPatient(i)

Spec == Init /\ [][Next]_vars

(***************************************************************************)
(* The queue functions applied to a table.  The table is any one the       *)
(* operations above can leave: pks in order of arrival, levels 1 to 5,     *)
(* rows WAITING or not, at either facility.                                *)
(***************************************************************************)
MaxRows == 2

PriorityColors == <<"RED", "ORANGE", "YELLOW", "GREEN", "BLUE">>

TableStatuses == {"WAITING", "IN_CARE"}

Row(f, st, level, t) ==
    [facility |-> f, status |-> st, priority_color |-> PriorityColors[level],
     priority_level |-> level, arrival_time |-> t, triage_end_time |-> TRUE,
     queue_position |-> 0, estimated_wait_minutes |-> 0]

Rows == {Row(f, st, level, t) :
            f \in Facilities, st \in TableStatuses,
            level \in 1..5, t \in 0..MaxClock}

Tables ==
    {tbl \in UNION {[1..n -> Rows] : n \in 0..MaxRows} :
        \A i, j \in DOMAIN tbl :
            i < j => tbl[i].arrival_time <= tbl[j].arrival_time}

InitQueue ==
    /\ sessions \in Tables
    /\ occupancy = FacilityOccupancy
    /\ clock = MaxClock
    /\ ret = NoRet
    /\ calls = NoCalls
    /\ facilities = ServiceFacilities
    /\ router = ComplaintSpecialtyMap
    /\ requests = <<>>

\* session.calculate_queue_position()
PositionCall(i) ==
    /\ i \in Ids
    /\ ret = NoRet
    /\ ret' = [op |-> "calculate_queue_position", id |-> i, code |-> 0,
               value |-> CalculateQueuePosition(sessions, i)]
    /\ UNCHANGED <<sessions, occupancy, clock, calls, facilities, router, requests>>

\* session.update_wait_time_estimate()
EstimateCall(i) ==
    /\ i \in Ids
    /\ ret = NoRet
    /\ sessions' = UpdateWaitTimeEstimate(sessions, occupancy, i)
    /\ ret' = [op |-> "update_wait_time_estimate", id |-> i, code |-> 0,
               value |-> WaitTimeEstimate(sessions, occupancy, i)]
    /\ UNCHANGED <<occupancy, clock, calls, facilities, router, requests>>

NextQueue ==
    \/ \E i \in Ids : PositionCall(i)
    \/ \E i \in Ids : EstimateCall(i)

SpecQueue == InitQueue /\ [][NextQueue]_vars

(***************************************************************************)
(* The engine alone: calculate_priority called with any input, as          *)
(* PublicTriageViewSet.self_triage calls it with the request's JSON.       *)
(* calls.last is the latest call, calls.probe an earlier call kept for     *)
(* comparison, calls.between whether a call with another input followed    *)
(* the probe.  patient_age_months, is_pregnant and gestational_weeks are   *)
(* only passed on to the call of line 453.                                 *)
(***************************************************************************)
Complaints == {"chest_pain", "unknown_complaint"}

AnswerDicts ==
    {NoAnswers,
     [x \in {"airway_compromised"} |-> TRUE],
     [x \in {"severe_pain"} |-> TRUE],
     [x \in {"cardiac_pain"} |-> TRUE]}

VitalDicts ==
    {NoVitals,
     [x \in {"respiratory_rate", "heart_rate"} |->
         IF x = "heart_rate" THEN Num(160) ELSE Num(5)],
     [x \in {"respiratory_rate"} |-> Num(20)],
     [x \in {"heart_rate"} |-> Str],
     [x \in {"gcs"} |-> Num(10)]}

TriageInputs ==
    {TriageInput(c, a, v) : c \in Complaints, a \in AnswerDicts, v \in VitalDicts}

\* mts.calculate_priority(...); the first call is kept as the probe, every
\* call as the last one
Recorded(call) ==
    [probe |-> IF calls.probe = <<>> THEN <<call>> ELSE calls.probe,
     last |-> <<call>>,
     between |-> \/ calls.between
                 \/ calls.probe # <<>> /\ call.input # calls.probe[1].input]

CalculatePriorityCall(input) ==
    /\ calls' = Recorded([input |-> input, outcome |-> CalculatePriority(input)])
    /\ UNCHANGED <<sessions, occupancy, clock, ret, facilities, router, requests>>

NextTriage ==
    \E input \in TriageInputs : CalculatePriorityCall(input)

SpecTriage == Init /\ [][NextTriage]_vars

(***************************************************************************)
(* Properties of the queue functions (SpecQueue) and of the operations     *)
(* (Spec).                                                                 *)
(***************************************************************************)

\* C1: of two WAITING sessions of one facility, the one with the lower
\* priority level (more severe) gets a strictly smaller position from
\* calculate_queue_position, whatever their arrival times.
C1SevereFirst ==
    \A a, b \in Ids :
        (/\ sessions[a].status = "WAITING"
         /\ sessions[b].status = "WAITING"
         /\ sessions[a].facility = sessions[b].facility
         /\ sessions[a].priority_level < sessions[b].priority_level)
        => CalculateQueuePosition(sessions, a) < CalculateQueuePosition(sessions, b)

\* a less severe session that arrived first has been given position 2,
\* behind a more severe one that arrived later
C1Witness ==
    /\ ret.op = "calculate_queue_position"
    /\ ret.value = 2
    /\ \E a \in Ids :
           /\ sessions[a].status = "WAITING"
           /\ sessions[ret.id].status = "WAITING"
           /\ sessions[a].facility = sessions[ret.id].facility
           /\ sessions[a].priority_level < sessions[ret.id].priority_level
           /\ sessions[a].arrival_time > sessions[ret.id].arrival_time

\* C2: of two WAITING sessions of one facility with the same priority level,
\* the one that arrived earlier gets a strictly lower position; two ORANGE
\* sessions arriving at T1 < T2 with no other session waiting at the
\* facility get positions 1 and 2.
C2EarlierFirst ==
    \A a, b \in Ids :
        (/\ sessions[a].status = "WAITING"
         /\ sessions[b].status = "WAITING"
         /\ sessions[a].facility = sessions[b].facility
         /\ sessions[a].priority_level = sessions[b].priority_level
         /\ sessions[a].arrival_time < sessions[b].arrival_time)
        => /\ CalculateQueuePosition(sessions, a)
                  < CalculateQueuePosition(sessions, b)
           /\ (/\ sessions[a].priority_color = "ORANGE"
               /\ WaitingAt(sessions, sessions[a].facility) = {a, b})
              => /\ CalculateQueuePosition(sessions, a) = 1
                 /\ CalculateQueuePosition(sessions, b) = 2

\* the second of two ORANGE sessions waiting alone at a facility has been
\* given position 2
C2Witness ==
    /\ ret.op = "calculate_queue_position"
    /\ ret.value = 2
    /\ \E a \in Ids :
           /\ WaitingAt(sessions, sessions[a].facility) = {a, ret.id}
           /\ sessions[a].priority_color = "ORANGE"
           /\ sessions[ret.id].priority_color = "ORANGE"
           /\ sessions[a].arrival_time < sessions[ret.id].arrival_time

\* C3: no two WAITING sessions of one facility get the same position from
\* calculate_queue_position, sessions of one level with equal arrival times
\* included.
C3DistinctPositions ==
    \A a, b \in Ids :
        (/\ a # b
         /\ sessions[a].status = "WAITING"
         /\ sessions[b].status = "WAITING"
         /\ sessions[a].facility = sessions[b].facility)
        => CalculateQueuePosition(sessions, a) # CalculateQueuePosition(sessions, b)

\* C4: the stored queue_position and estimated_wait_minutes of every WAITING
\* session equal the values calculate_queue_position and
\* update_wait_time_estimate compute from the current table, after every
\* operation.
C4StoredEqualsComputed ==
    \A i \in Ids :
        sessions[i].status = "WAITING"
        => /\ sessions[i].queue_position = CalculateQueuePosition(sessions, i)
           /\ sessions[i].estimated_wait_minutes
                  = WaitTimeEstimate(sessions, occupancy, i)

\* C5: calculate_queue_position is 1 plus the number of rows of the same
\* facility, WAITING, with a lower level or the same level and an earlier
\* arrival; taking a row of another facility, or a row that is not WAITING,
\* out of the table leaves the result as it was.
C5CountAhead ==
    \A i \in Ids :
        LET n == Len(sessions)
            Ahead(k) ==
                /\ sessions[k].facility = sessions[i].facility
                /\ sessions[k].status = "WAITING"
                /\ \/ sessions[k].priority_level < sessions[i].priority_level
                   \/ /\ sessions[k].priority_level = sessions[i].priority_level
                      /\ sessions[k].arrival_time < sessions[i].arrival_time
            count[k \in 0..n] ==
                IF k = 0 THEN 0
                ELSE count[k - 1] + (IF Ahead(k) THEN 1 ELSE 0)
            Without(j) ==
                [k \in 1..(n - 1) |->
                    IF k < j THEN sessions[k] ELSE sessions[k + 1]]
            Moved(j) == IF i > j THEN i - 1 ELSE i
        IN  /\ CalculateQueuePosition(sessions, i) = 1 + count[n]
            /\ \A j \in Ids \ {i} :
                   (\/ sessions[j].facility # sessions[i].facility
                    \/ sessions[j].status # "WAITING")
                   => CalculateQueuePosition(Without(j), Moved(j))
                          = CalculateQueuePosition(sessions, i)

\* a session has been given position 1 while a more severe session that
\* arrived earlier is waiting at the other facility
C5Witness ==
    /\ ret.op = "calculate_queue_position"
    /\ ret.value = 1
    /\ \E j \in Ids :
           /\ sessions[j].status = "WAITING"
           /\ sessions[j].facility # sessions[ret.id].facility
           /\ sessions[j].priority_level < sessions[ret.id].priority_level
           /\ sessions[j].arrival_time < sessions[ret.id].arrival_time

\* C6: update_wait_time_estimate returns (position - 1) times 5, 15, 30, 45
\* or 60 for levels 1 to 5, times 1.5 rounded down exactly when the
\* facility's occupancy is above 90, and stores the value it returns as
\* estimated_wait_minutes.
C6WaitEstimate ==
    ret.op = "update_wait_time_estimate"
    => LET i == ret.id
           base_time == <<5, 15, 30, 45, 60>>[sessions[i].priority_level]
           plain == (CalculateQueuePosition(sessions, i) - 1) * base_time
       IN  /\ ret.value = IF occupancy[sessions[i].facility] > 90
                          THEN plain + plain \div 2
                          ELSE plain
           /\ sessions[i].estimated_wait_minutes = ret.value

\* the second of two RED sessions waiting at the facility above 90% has
\* been given 7 minutes (5 * 1.5 = 7.5) and the row holds it
C6Witness ==
    /\ ret.op = "update_wait_time_estimate"
    /\ ret.value = 7
    /\ sessions[ret.id].priority_level = 1
    /\ sessions[ret.id].estimated_wait_minutes = 7
    /\ occupancy[sessions[ret.id].facility] > 90

(***************************************************************************)
(* Properties of calculate_priority (SpecTriage).                          *)
(***************************************************************************)

\* the general discriminator d is triggered by the call's input: by a true
\* answer, or by its criteria on the vital signs
Triggered(d, input) ==
    \/ AnswerGet(input.discriminator_answers, d.id)
    \/ /\ Truthy(input.vital_signs)
       /\ d.vital_signs_criteria # <<>>
       /\ CheckVitalSignsCriteria(input.vital_signs, d.vital_signs_criteria)
              = "True"

\* C7: when a general discriminator of priority RED is triggered by a true
\* answer or by the vital signs, calculate_priority returns RED, for every
\* complaint and all other answers.
C7RedWins ==
    calls.last # <<>>
    => LET call == calls.last[1]
       IN  (\E k \in DOMAIN GeneralDiscriminators :
                /\ GeneralDiscriminators[k].priority = "RED"
                /\ Triggered(GeneralDiscriminators[k], call.input))
           => /\ call.outcome.kind = "return"
              /\ call.outcome.priority = "RED"

C9DefaultGreen ==
    (/\ calls.last # <<>>
     /\ \A id \in DOMAIN calls.last[1].input.discriminator_answers :
            ~calls.last[1].input.discriminator_answers[id]
     /\ calls.last[1].input.vital_signs = NoVitals)
    => /\ calls.last[1].outcome.kind = "return"
       /\ calls.last[1].outcome.priority = "GREEN"
       /\ calls.last[1].outcome.reason = "Sem sinais de alarme identificados"

\* C10: for a complaint that is not a flowchart id, calculate_priority does
\* not raise where the general discriminators do not, and returns the
\* (priority, reason) of the general discriminators.
C10UnknownComplaint ==
    calls.last # <<>>
    => LET call == calls.last[1]
           g == CheckGeneralDiscriminators(call.input.discriminator_answers,
                                           call.input.vital_signs)
       IN  (call.input.complaint \notin FlowchartIds /\ g.raised = "")
           => /\ call.outcome.kind = "return"
              /\ call.outcome.priority = g.highest_priority
              /\ call.outcome.reason = g.reason

(***************************************************************************)
(* _check_vital_signs_criteria alone, called with a dict of vital signs    *)
(* and a criteria dict.                                                    *)
(***************************************************************************)

\* condition strings with one comparison or two joined by a word: the
\* decimal digits of n, the operator, and the whole string
DigitChars == <<"0", "1", "2", "3", "4", "5", "6", "7", "8", "9">>

RECURSIVE Digits(_)
Digits(n) ==
    IF n < 10 THEN <<DigitChars[n + 1]>>
    ELSE Digits(n \div 10) \o <<DigitChars[(n % 10) + 1]>>

OpChars(op) ==
    CASE op = "<" -> <<"<">>
      [] op = "<=" -> <<"<", "=">>
      [] op = ">" -> <<">">>
      [] op = ">=" -> <<">", "=">>
      [] op = "==" -> <<"=", "=">>

RenderAtom(a) == OpChars(a.op) \o Digits(a.n)

Render(e) ==
    IF e.join = "" THEN RenderAtom(e.atoms[1])
    ELSE RenderAtom(e.atoms[1])
         \o (IF e.join = "or" THEN OrSep ELSE AndSep)
         \o RenderAtom(e.atoms[2])

Atoms == [op : {"<", "<=", ">", ">=", "=="}, n : {90, 140}]

Exprs ==
    {[join |-> "", atoms |-> <<a>>] : a \in Atoms}
    \cup {[join |-> j, atoms |-> <<a, b>>] :
             j \in {"or", "and"}, a \in Atoms, b \in Atoms}

Measurements == {89, 90, 91, 95, 100, 139, 140, 141, 150}

\* a criteria dict with one str condition, and a dict with one measurement
Criterion(param, condition) ==
    <<[param |-> param, isStr |-> TRUE, condition |-> condition]>>

Measured(param, value) == [x \in {param} |-> value]

\* criteria of the catalog whose condition is not comparisons throughout
CatalogOddCriteria ==
    {Criterion("gcs",
         <<"9", "-", "1", "2">>),
     Criterion("pain_scale",
         <<"4", "-", "7">>),
     Criterion("ecg_changes",
         <<"s", "t", "_", "e", "l", "e", "v", "a", "t", "i", "o", "n", " ", "o", "r", " ", "n", "e", "w", "_", "l", "b", "b", "b">>),
     Criterion("gestational_age",
         <<">", "2", "0", " ", "w", "e", "e", "k", "s">>),
     Criterion("peak_flow",
         <<"<", "7", "0", "%", " ", "p", "r", "e", "d", "i", "c", "t", "e", "d">>)}

OddValues == {Num(5), Num(10), Num(25), Num(50), Num(80), Str}

\* dicts that lack some or all of the measurements a criteria dict names
PartialVitals ==
    {NoVitals,
     Measured("heart_rate", Num(130)),
     Measured("heart_rate", Num(100)),
     Measured("systolic_bp", Num(85)),
     Measured("capillary_refill", Num(1)),
     Measured("spo2", Num(85)),
     Measured("temperature", Num(39)),
     [x \in {"spo2", "heart_rate"} |->
         IF x = "spo2" THEN Num(95) ELSE Num(100)],
     [x \in {"systolic_bp", "capillary_refill"} |->
         IF x = "systolic_bp" THEN Num(120) ELSE Num(3)],
     [x \in {"systolic_bp", "heart_rate", "capillary_refill"} |->
         IF x = "systolic_bp" THEN Num(120)
         ELSE IF x = "heart_rate" THEN Num(130) ELSE Num(1)]}

CriteriaInputs ==
    {[vital_signs |-> Measured("heart_rate", Num(v)),
      criteria |-> Criterion("heart_rate", Render(e))] :
         e \in Exprs, v \in Measurements}
    \cup {[vital_signs |-> Measured(c[1].param, val), criteria |-> c] :
              c \in CatalogOddCriteria, val \in OddValues}
    \cup {[vital_signs |-> vs,
           criteria |-> GeneralDiscriminators[k].vital_signs_criteria] :
              vs \in PartialVitals, k \in DOMAIN GeneralDiscriminators}

\* self._check_vital_signs_criteria(vital_signs, criteria)
CheckVitalSignsCriteriaCall(input) ==
    /\ ret.op = ""
    /\ ret' = [op |-> "_check_vital_signs_criteria", id |-> 0, code |-> 0,
               value |-> [vital_signs |-> input.vital_signs,
                          criteria |-> input.criteria,
                          result |-> CheckVitalSignsCriteria(input.vital_signs,
                                                             input.criteria)]]
    /\ UNCHANGED <<sessions, occupancy, clock, calls, facilities, router, requests>>

NextCriteria == \E input \in CriteriaInputs : CheckVitalSignsCriteriaCall(input)

SpecCriteria == Init /\ [][NextCriteria]_vars

\* the numeric relation of one comparison, and of two joined by a word
AtomHolds(a, v) ==
    CASE a.op = "<" -> v < a.n
      [] a.op = "<=" -> v <= a.n
      [] a.op = ">" -> v > a.n
      [] a.op = ">=" -> v >= a.n
      [] a.op = "==" -> v = a.n

ExprHolds(e, v) ==
    IF e.join = "and"
    THEN \A k \in DOMAIN e.atoms : AtomHolds(e.atoms[k], v)
    ELSE \E k \in DOMAIN e.atoms : AtomHolds(e.atoms[k], v)

\* C11: a condition of comparisons joined by `or` is satisfied exactly when
\* one of them holds for the measurement, one joined by `and` exactly when
\* all hold, and a single comparison with <, <=, >, >= or == exactly when
\* the numeric relation holds ("<90 or >140": false for 95, true for 150;
\* ">90 and <140": true for 100).
C11ConditionSemantics ==
    ret.op = "_check_vital_signs_criteria"
    => \A e \in Exprs, v \in Measurements :
           (/\ ret.value.vital_signs = Measured("heart_rate", Num(v))
            /\ ret.value.criteria = Criterion("heart_rate", Render(e)))
           => ret.value.result = IF ExprHolds(e, v) THEN "True" ELSE "False"

\* "<90 or >140" has been evaluated for 150 and is satisfied by its second
\* comparison only
C11Witness ==
    /\ ret.op = "_check_vital_signs_criteria"
    /\ ret.value.vital_signs = Measured("heart_rate", Num(150))
    /\ ret.value.criteria = Criterion("heart_rate", <<"<", "9", "0", " ", "o", "r", " ", ">", "1", "4", "0">>)
    /\ ret.value.result = "True"

\* C12: a criterion whose measurement is absent from the vital signs counts
\* as not satisfied and the evaluation goes on to the next criterion without
\* raising: the result is that of the criteria whose measurements are
\* present, and False when none is.
C12AbsentMeasurement ==
    ret.op = "_check_vital_signs_criteria"
    => LET present == SelectSeq(ret.value.criteria,
                          LAMBDA item : item.param \in DOMAIN ret.value.vital_signs)
       IN  /\ Len(present) < Len(ret.value.criteria)
              => ret.value.result
                     = CheckVitalSignsCriteria(ret.value.vital_signs, present)
           /\ present = <<>> => ret.value.result = "False"

\* the criteria of `shock` have been evaluated with systolic_bp absent and
\* are satisfied by heart_rate 130
C12Witness ==
    /\ ret.op = "_check_vital_signs_criteria"
    /\ Len(ret.value.criteria) = 3
    /\ ret.value.criteria[1].param = "systolic_bp"
    /\ ret.value.vital_signs = Measured("heart_rate", Num(130))
    /\ ret.value.result = "True"

\* C13: a condition of the catalog that is not made of comparisons
\* throughout ("9-12", "4-7", "st_elevation or new_lbbb", ">20 weeks",
\* "<70% predicted") evaluates to False for every numeric measurement.
C13OddConditionsFalse ==
    (/\ ret.op = "_check_vital_signs_criteria"
     /\ ret.value.criteria \in CatalogOddCriteria
     /\ ret.value.criteria[1].param \in DOMAIN ret.value.vital_signs
     /\ ret.value.vital_signs[ret.value.criteria[1].param].kind = "num")
    => ret.value.result = "False"

\* the numeric vital signs of a call, and the call without the others
NumericOnly(vital_signs) ==
    [x \in {y \in DOMAIN vital_signs : vital_signs[y].kind = "num"} |->
        vital_signs[x]]

\* C14: a vital sign that is not a number makes only the conditions on it
\* count as not met: calculate_priority returns the result of the remaining
\* inputs and does not raise.
C14NonNumericIgnored ==
    calls.last # <<>>
    => LET call == calls.last[1]
           rest == CalculatePriority(
                       [call.input EXCEPT
                           !.vital_signs = NumericOnly(call.input.vital_signs)])
       IN  (/\ NumericOnly(call.input.vital_signs) # call.input.vital_signs
            /\ rest.kind = "return")
           => /\ call.outcome.kind = "return"
              /\ call.outcome.priority = rest.priority
              /\ call.outcome.reason = rest.reason


(***************************************************************************)
(* route_patient and the routing endpoint over a facilities table.         *)
(*   SpecRouting: the table holds one or two facilities, the second one    *)
(*   differing from the first in one column, in either query order; one    *)
(*   call is made and its result recorded in ret.                          *)
(***************************************************************************)
FacilityTypes == {"HOSPITAL", "PS", "UPA", "UBS"}
ResourceSets == {{}, {"sala_vermelha", "hemodinamica"}}
StaffedSets == {{}, {"CARDIOLOGIA"}}
Distances == {2, 30}

FacilityRows(id) ==
    {FacilityRow(id, t, e, w, h, r, st, km) :
        t \in FacilityTypes, e \in BOOLEAN, w \in BOOLEAN, h \in BOOLEAN,
        r \in ResourceSets, st \in StaffedSets, km \in Distances}

\* the rows that differ from row a in the id and in at most one column, and
\* a nearer row that takes neither emergencies nor walk-ins
Second(a, id) ==
    LET b == [a EXCEPT !.id = id]
    IN  {b, [b EXCEPT !.is_active = FALSE],
         [b EXCEPT !.is_accepting_emergencies = FALSE,
                   !.is_accepting_walkins = FALSE, !.is_24h = FALSE,
                   !.distance_km = 2]}
        \cup {[b EXCEPT !.staffed = st] : st \in StaffedSets}
        \cup {[b EXCEPT !.distance_km = km] : km \in Distances}
        \cup {[b EXCEPT !.facility_type = t] : t \in FacilityTypes}

RoutingTables ==
    {<<a>> : a \in FacilityRows("f1")}
    \cup UNION {{<<a, b>> : b \in Second(a, "f2")} : a \in FacilityRows("f1")}
    \cup UNION {{<<b, a>> : b \in Second(a, "f2")} : a \in FacilityRows("f1")}

RoutingOccupancies == {FacilityOccupancy, [f \in Facilities |-> 60]}

\* the columns of a TriageSession the router reads
RoutingSession(priority, flowchart, answers) ==
    [priority_color |-> priority, manchester_flowchart |-> flowchart,
     discriminators_answered |-> answers]

RoutingSessions ==
    {RoutingSession(p, "chest_pain", [cardiac_pain |-> FALSE]) :
        p \in Elements(PriorityColors)}
    \cup {RoutingSession(p, "headache", [cardiac_pain |-> TRUE]) :
            p \in Elements(PriorityColors)}

MaxResults == {1, 3}

RoutingInputs ==
    [session : RoutingSessions, coords : BOOLEAN, max_results : MaxResults]

InitRouting ==
    /\ sessions = <<>>
    /\ occupancy \in RoutingOccupancies
    /\ clock = 0
    /\ ret = NoRet
    /\ calls = NoCalls
    /\ facilities \in RoutingTables
    /\ router = ComplaintSpecialtyMap
    /\ requests = <<>>

\* what a call of route_patient leaves: the list returned and the class dict
Routed(input, out) ==
    /\ ret' = [op |-> "route_patient", id |-> 0, code |-> 0,
               value |-> [session |-> input.session, coords |-> input.coords,
                          max_results |-> input.max_results,
                          results |-> out.results]]
    /\ router' = out.map

\* router.route_patient(session, user_lat, user_lng, max_results)
RoutePatientCall(input) ==
    /\ ret.op = ""
    /\ Routed(input, RoutePatient(router, facilities, occupancy, input.session,
                                  input.coords, input.max_results))
    /\ UNCHANGED <<sessions, occupancy, clock, calls, facilities, requests>>

\* what get_routing answers once the coordinates are there
RoutingAnswered(session, out) ==
    /\ ret' = [op |-> "get_routing", id |-> 0, code |-> 200,
               value |-> [session |-> session, coords |-> TRUE,
                          max_results |-> 3, results |-> out.results]]
    /\ router' = out.map

\* POST /triage/<pk>/get_routing/ with or without lat and lng in the body
GetRouting(session, coords) ==
    /\ ret.op = ""
    /\ IF ~coords
       THEN /\ ret' = [op |-> "get_routing", id |-> 0, code |-> 400,
                       value |-> [session |-> session, coords |-> FALSE,
                                  max_results |-> 3, results |-> <<>>]]
            /\ UNCHANGED router
       ELSE RoutingAnswered(session,
                RoutePatient(router, facilities, occupancy, session, TRUE, 3))
    /\ UNCHANGED <<sessions, occupancy, clock, calls, facilities, requests>>

NextRouting ==
    \/ \E input \in RoutingInputs : RoutePatientCall(input)
    \/ \E session \in RoutingSessions, coords \in BOOLEAN :
          GetRouting(session, coords)

SpecRouting == InitRouting /\ [][NextRouting]_vars


(***************************************************************************)
(* Claims about routing.                                                   *)
(***************************************************************************)
RoutingReturned ==
    \/ ret.op = "route_patient"
    \/ ret.op = "get_routing" /\ ret.code = 200

\* the facility of the table an item of the result names
RowOf(id) == CHOOSE f \in Elements(facilities) : f.id = id

ReturnedIds == {ret.value.results[k].facility : k \in DOMAIN ret.value.results}

\* C15: every facility route_patient returns passes the eligibility gate of
\* the encounter's priority: RED a HOSPITAL or PS that accepts emergencies
\* and has 'sala_vermelha'; ORANGE a HOSPITAL, PS or UPA that accepts
\* emergencies; YELLOW a UPA, HOSPITAL or PS that accepts emergencies or
\* walk-ins; GREEN and BLUE a facility that accepts walk-ins or is open 24
\* hours.  A facility that fails the gate is not returned, whatever its score.
C15GateRespected ==
    RoutingReturned =>
        \A id \in ReturnedIds :
            LET f == RowOf(id)
                priority == ret.value.session.priority_color
            IN  /\ priority = "RED" =>
                      /\ f.facility_type \in {"HOSPITAL", "PS"}
                      /\ f.is_accepting_emergencies
                      /\ "sala_vermelha" \in f.resources
                /\ priority = "ORANGE" =>
                      /\ f.facility_type \in {"HOSPITAL", "PS", "UPA"}
                      /\ f.is_accepting_emergencies
                /\ priority = "YELLOW" =>
                      /\ f.facility_type \in {"UPA", "HOSPITAL", "PS"}
                      /\ f.is_accepting_emergencies \/ f.is_accepting_walkins
                /\ priority \in {"GREEN", "BLUE"} =>
                      f.is_accepting_walkins \/ f.is_24h

\* a RED encounter routed with coordinates over a table of two: the one
\* returned is 30 km away, the other one is 2 km away, takes no emergencies
\* and would have scored higher
C15Witness ==
    /\ ret.op = "route_patient"
    /\ ret.value.session.priority_color = "RED"
    /\ ret.value.coords
    /\ ret.value.max_results = 3
    /\ Len(facilities) = 2
    /\ Len(ret.value.results) = 1
    /\ \E k \in DOMAIN facilities :
          /\ facilities[k].id # ret.value.results[1].facility
          /\ ~facilities[k].is_accepting_emergencies
          /\ Scored(facilities[k], occupancy, ret.value.session, TRUE,
                    GetRequiredSpecialties(ComplaintSpecialtyMap,
                        ret.value.session).specialties).score
                > ret.value.results[1].score


\* the specialties the recorded call required
RequiredOf(session) ==
    GetRequiredSpecialties(ComplaintSpecialtyMap, session).specialties

\* the facilities of the table that pass the urgency gate of the recorded call
GatedIds ==
    {facilities[k].id : k \in {j \in DOMAIN facilities :
        UrgencyGate(facilities[j], ret.value.session.priority_color)}}

\* C16: with a non-empty list of required specialties, a facility that
\* passes the urgency gate and has none of them staffed is still scored and
\* appears in the ranking when there is room for it, with has_specialty
\* false; the specialty step removes no candidate.
C16SpecialtyStepKeepsCandidates ==
    (RoutingReturned /\ ret.value.max_results = 3
        /\ RequiredOf(ret.value.session) # {}) =>
        /\ GatedIds \subseteq ReturnedIds
        /\ \A k \in DOMAIN ret.value.results :
              ret.value.results[k].has_specialty
                  = (RowOf(ret.value.results[k].facility).staffed
                        \cap RequiredOf(ret.value.session) # {})


\* the item of the result for a facility, when there is one
ItemsOf(id) ==
    {ret.value.results[k] : k \in {j \in DOMAIN ret.value.results :
        ret.value.results[j].facility = id}}

\* rows a and b are alike in every column but the id and the shifts
AlikeButStaffing(a, b) ==
    [a EXCEPT !.id = "", !.staffed = {}] = [b EXCEPT !.id = "", !.staffed = {}]

\* C17: of two candidate facilities alike in every respect except that one
\* has a required specialty staffed now and the other has none, routing the
\* same encounter scores the one without exactly 25 lower.
C17SpecialtyBonusIs25 ==
    (RoutingReturned /\ ret.value.max_results = 3) =>
        \A i, j \in DOMAIN facilities :
            (/\ AlikeButStaffing(facilities[i], facilities[j])
             /\ occupancy[facilities[i].id] = occupancy[facilities[j].id]
             /\ facilities[i].id \in GatedIds
             /\ facilities[i].staffed \cap RequiredOf(ret.value.session) # {}
             /\ facilities[j].staffed \cap RequiredOf(ret.value.session) = {})
            => \E a \in ItemsOf(facilities[i].id), b \in ItemsOf(facilities[j].id) :
                  b.score = a.score - 250


\* what the recorded encounter gets when it is routed with coordinates
WithCoordinates ==
    Ranked(facilities, occupancy, ret.value.session, TRUE,
           ret.value.max_results, RequiredOf(ret.value.session))

\* C18: routing without origin coordinates does not fail, through
\* route_patient and through the routing endpoint: the ranking is not empty
\* when routing has a facility to return, and its items carry no distance.
C18NoCoordinatesStillRoutes ==
    (ret.op \in {"route_patient", "get_routing"} /\ ~ret.value.coords) =>
        /\ ret.code # 400
        /\ WithCoordinates # <<>> => ret.value.results # <<>>
        /\ \A k \in DOMAIN ret.value.results :
              ret.value.results[k].distance_km = NoDistance


\* the order of the facility ids
IdRank(id) == IF id = "f1" THEN 1 ELSE 2

\* item a goes before item b: higher score, then shorter distance, then id
GoesBefore(a, b) ==
    \/ a.score > b.score
    \/ /\ a.score = b.score
       /\ \/ a.distance_km.km < b.distance_km.km
          \/ /\ a.distance_km.km = b.distance_km.km
             /\ IdRank(a.facility) < IdRank(b.facility)

\* the table as a query returns it in the opposite order
Reversed(tbl) == [k \in DOMAIN tbl |-> tbl[Len(tbl) + 1 - k]]

\* C19: the ranking is the first max_results of the scored candidates in
\* descending score, ties broken by ascending distance and then by facility
\* id, so that it is the same for every order of the candidates.
C19TotalOrder ==
    RoutingReturned =>
        /\ \A k \in DOMAIN ret.value.results :
              k + 1 \in DOMAIN ret.value.results =>
                  GoesBefore(ret.value.results[k], ret.value.results[k + 1])
        /\ ret.value.results
              = Ranked(Reversed(facilities), occupancy, ret.value.session,
                       ret.value.coords, ret.value.max_results,
                       RequiredOf(ret.value.session))


(***************************************************************************)
(* Encounters routed one after the other in one process.                   *)
(*   SpecRouter: the facilities of the service specifications; each step   *)
(*   is a call of route_patient with coordinates, and the class dict is    *)
(*   carried from one call to the next.  MaxSpecialties caps the length    *)
(*   of the lists of the dict.                                             *)
(***************************************************************************)
MaxSpecialties == 5

RouterSessions ==
    {RoutingSession(p, fl, [cardiac_pain |-> c, neurological_deficit |-> n]) :
        p \in {"ORANGE", "GREEN"},
        fl \in {"chest_pain", "headache", "back_pain"},
        c \in BOOLEAN, n \in BOOLEAN}

\* the lists of the dict stay within the cap
WithinCap(map) == \A fl \in DOMAIN map : Len(map[fl]) <= MaxSpecialties

\* router.route_patient(session, lat, lng, max_results=3), once more
RouteAgain(session) ==
    /\ WithinCap(GetRequiredSpecialties(router, session).map)
    /\ Routed([session |-> session, coords |-> TRUE, max_results |-> 3],
              RoutePatient(router, facilities, occupancy, session, TRUE, 3))
    /\ UNCHANGED <<sessions, occupancy, clock, calls, facilities, requests>>

NextRouter == \E session \in RouterSessions : RouteAgain(session)

SpecRouter == Init /\ [][NextRouter]_vars

\* C20: route_patient changes no state that a later ranking reads: it
\* leaves COMPLAINT_SPECIALTY_MAP as it was, and an encounter gets the
\* ranking it would get from a router that has routed nobody before.
C20RouterStateless ==
    /\ router = ComplaintSpecialtyMap
    /\ requests = <<>>
    /\ ret.op = "route_patient" =>
          ret.value.results
              = RoutePatient(ComplaintSpecialtyMap, facilities, occupancy,
                             ret.value.session, ret.value.coords,
                             ret.value.max_results).results


(***************************************************************************)
(* Claims about the lifecycle of a session (Spec).                         *)
(***************************************************************************)
\* the place of a status along ARRIVAL, TRIAGE, WAITING, IN_CARE, terminal
Stage(status) ==
    CASE status = "ARRIVAL" -> 1
      [] status = "TRIAGE" -> 2
      [] status = "WAITING" -> 3
      [] status = "IN_CARE" -> 4
      [] OTHER -> 5

\* C21: over create, update, call_patient (REST or WebSocket) and discharge,
\* the status of a session only moves forward along ARRIVAL, TRIAGE,
\* WAITING, IN_CARE, terminal: it becomes IN_CARE only from WAITING, and
\* once it is DISCHARGED, TRANSFERRED or LEFT no operation changes it.
C21StatusMovesForward ==
    [][\A i \in Ids :
          /\ Stage(sessions'[i].status) >= Stage(sessions[i].status)
          /\ (sessions'[i].status = "IN_CARE" /\ sessions[i].status # "IN_CARE")
                => sessions[i].status = "WAITING"
          /\ sessions[i].status \in {"DISCHARGED", "TRANSFERRED", "LEFT"}
                => sessions'[i].status = sessions[i].status]_vars

\* C22: when the triage of a session completes and its priority is resolved
\* (creation of the session with its Manchester calculation, or a WebSocket
\* update_triage), the status of the session becomes WAITING.
C22TriagedIsWaiting ==
    [][/\ Len(sessions') > Len(sessions)
            => sessions'[Len(sessions')].status = "WAITING"
       /\ \A i \in Ids :
            (\E u \in WsUpdates : WsUpdateTriage(i, u))
                => sessions'[i].status = "WAITING"]_vars

\* C27: the priority_level of every session is the rank of its
\* priority_color (RED 1, ORANGE 2, YELLOW 3, GREEN 4, BLUE 5), after the
\* creation and after any update_triage.
C27LevelMatchesColor ==
    \A i \in Ids : sessions[i].priority_level = Rank(sessions[i].priority_color)


(***************************************************************************)
(* Claims about the engine, continued.                                     *)
(***************************************************************************)

\* the criteria of the recorded call that the supplied measurements satisfy
SatisfiedCriteria ==
    {k \in DOMAIN ret.value.criteria :
        /\ ret.value.criteria[k].param \in DOMAIN ret.value.vital_signs
        /\ ret.value.criteria[k].isStr
        /\ ConditionHolds(ret.value.vital_signs[ret.value.criteria[k].param],
                          ret.value.criteria[k].condition) = "True"}

GeneralOf(call) ==
    CheckGeneralDiscriminators(call.input.discriminator_answers,
                               call.input.vital_signs)

\* C23: when the general discriminators do not yield RED, calculate_priority
\* returns the more severe (lower rank) of the general result and the
\* result of the flowchart, so a priority at least as severe as the general
\* one, with the reason of the general side when the ranks are equal.
C23MergeMostSevere ==
    \A k \in DOMAIN calls.last :
        (/\ GeneralOf(calls.last[k]).raised = ""
         /\ GeneralOf(calls.last[k]).highest_priority # "RED")
        => /\ calls.last[k].outcome.kind = "return"
           /\ Rank(calls.last[k].outcome.priority)
                 <= Rank(GeneralOf(calls.last[k]).highest_priority)
           /\ Rank(calls.last[k].outcome.priority)
                 = Rank(GeneralOf(calls.last[k]).highest_priority)
              => calls.last[k].outcome.reason = GeneralOf(calls.last[k]).reason

\* C25: the recommendations calculate_priority returns are the base list of
\* the final priority followed by the additions of the complaint, whichever
\* discriminator gave the priority: for chest_pain every RED or ORANGE
\* result carries "ECG em <10 minutos" and the rest.
C25RecommendationsByTier ==
    \A k \in DOMAIN calls.last :
        calls.last[k].outcome.kind = "return"
        => calls.last[k].outcome.recommendations
              = GenerateRecommendations(calls.last[k].outcome.priority,
                                        calls.last[k].input.complaint)


(***************************************************************************)
(* calculate_priority with the age of the patient.                         *)
(*   SpecPediatric: one call for a fever_child encounter.  The age is      *)
(*   handed to _check_flowchart_discriminators only, which the class does  *)
(*   not define, so nothing reads it and nothing reads pediatric_modifier. *)
(***************************************************************************)
\* the discriminator `meningism` of flowchart fever_child
Meningism ==
    [id |-> "meningism", description |-> "Sinais meníngeos",
     priority |-> "RED",
     pediatric_modifier |-> [under_3_months |-> "RED",
                             from_3_to_6_months |-> "ORANGE"]]

\* fever_child encounters with the age absent (None) or given in months
PediatricInputs ==
    [input : {TriageInput("fever_child", a, NoVitals) :
                 a \in [{"meningism", "high_fever", "severe_pain",
                         "airway_compromised"} -> BOOLEAN]},
     patient_age_months :
         {[given |-> FALSE, months |-> 0]}
         \cup [given : {TRUE}, months : {1, 2, 3, 4, 6, 7, 12}]]

\* mts.calculate_priority(complaint, answers, vital_signs, patient_age_months)
CalculatePriorityAged(call) ==
    /\ ret.op = ""
    /\ ret' = [op |-> "calculate_priority", id |-> 0, code |-> 0,
               value |-> [input |-> call.input,
                          patient_age_months |-> call.patient_age_months,
                          outcome |-> CalculatePriority(call.input)]]
    /\ UNCHANGED <<sessions, occupancy, clock, calls, facilities, router, requests>>

NextPediatric == \E call \in PediatricInputs : CalculatePriorityAged(call)

SpecPediatric == Init /\ [][NextPediatric]_vars

\* C26: for meningism in fever_child the override of the age bracket
\* replaces the tier of the discriminator (RED under 3 months, ORANGE from
\* 3 to 6 months) and of no other discriminator: with meningism answered
\* the result is the more severe of that tier and the general result.
C26AgeOverride ==
    (/\ ret.op = "calculate_priority"
     /\ ret.value.input.complaint = "fever_child"
     /\ ret.value.input.discriminator_answers["meningism"]
     /\ ret.value.patient_age_months.given
     /\ ret.value.patient_age_months.months <= 6)
    => LET g == CheckGeneralDiscriminators(ret.value.input.discriminator_answers,
                                           ret.value.input.vital_signs)
           age == ret.value.patient_age_months
           m == IF age.given /\ age.months < 3
                THEN Meningism.pediatric_modifier.under_3_months
                ELSE IF age.given /\ age.months <= 6
                THEN Meningism.pediatric_modifier.from_3_to_6_months
                ELSE Meningism.priority
       IN  /\ ret.value.outcome.kind = "return"
           /\ ret.value.outcome.priority
                 = IF Rank(m) < Rank(g.highest_priority)
                   THEN m ELSE g.highest_priority


(***************************************************************************)
(* _calculate_facility_score alone.                                        *)
(*   SpecScore: one facility, an occupancy at either side of each          *)
(*   threshold, and one call with or without coordinates and with the      *)
(*   specialties of the session or none.                                   *)
(***************************************************************************)
ScoreInputs ==
    [session : {RoutingSession(p, fl, [cardiac_pain |-> FALSE]) :
                   p \in Elements(PriorityColors),
                   fl \in {"chest_pain", "major_trauma", "headache"}},
     coords : BOOLEAN, required : BOOLEAN]

InitScore ==
    /\ sessions = <<>>
    /\ occupancy \in {[f \in Facilities |-> o] :
                          o \in {50, 51, 70, 71, 90, 91}}
    /\ clock = 0
    /\ ret = NoRet
    /\ calls = NoCalls
    /\ facilities \in
          {<<FacilityRow("f1", t, TRUE, TRUE, TRUE, r, st, km)>> :
              t \in FacilityTypes,
              r \in SUBSET {"hemodinamica", "centro_trauma"},
              st \in StaffedSets, km \in {0, 2, 30}}
    /\ router = ComplaintSpecialtyMap
    /\ requests = <<>>

\* the record of a call of _calculate_facility_score
ScoreRecord(input, specialties, out) ==
    [op |-> "_calculate_facility_score", id |-> 0, code |-> 0,
     value |-> [session |-> input.session, coords |-> input.coords,
                specialties |-> specialties, score |-> out.score,
                has_specialty |-> out.has_specialty]]

\* self._calculate_facility_score(facility, session, lat, lng, specialties)
CalculateFacilityScoreCall(input, specialties) ==
    /\ ret.op = ""
    /\ ret' = ScoreRecord(input, specialties,
                  CalculateFacilityScore(facilities[1], occupancy,
                      input.session, input.coords, specialties))
    /\ UNCHANGED <<sessions, occupancy, clock, calls, facilities, router, requests>>

NextScore ==
    \E input \in ScoreInputs :
        CalculateFacilityScoreCall(input,
            IF input.required THEN RequiredOf(input.session) ELSE {})

SpecScore == InitScore /\ [][NextScore]_vars

\* C24: the score is max(0, 100 - distance_km * w - occupancy penalty +
\* bonuses), in tenths here: w is 5 for RED, 3 for ORANGE and 1.5 otherwise;
\* the penalty is 30 above 90%, 15 above 70%, 5 above 50%, one bracket only;
\* the bonuses are 25 for a staffed required specialty, 20 for HOSPITAL or
\* 15 for PS when RED or ORANGE, 10 for UBS when GREEN or BLUE, 15 for
\* chest_pain with 'hemodinamica', 20 for major_trauma with 'centro_trauma'.
\* The score is never negative.
C24ScoreFormula ==
    ret.op = "_calculate_facility_score" =>
        LET f == facilities[1]
            v == ret.value
            p == v.session.priority_color
            w == IF p = "RED" THEN 50 ELSE IF p = "ORANGE" THEN 30 ELSE 15
            o == occupancy[f.id]
            raw == 1000
                   - (IF v.coords THEN f.distance_km * w ELSE 0)
                   - (IF o > 90 THEN 300 ELSE IF o > 70 THEN 150
                      ELSE IF o > 50 THEN 50 ELSE 0)
                   + (IF f.staffed \cap v.specialties # {} THEN 250 ELSE 0)
                   + (IF p \in {"RED", "ORANGE"} /\ f.facility_type = "HOSPITAL"
                      THEN 200 ELSE 0)
                   + (IF p \in {"RED", "ORANGE"} /\ f.facility_type = "PS"
                      THEN 150 ELSE 0)
                   + (IF p \in {"GREEN", "BLUE"} /\ f.facility_type = "UBS"
                      THEN 100 ELSE 0)
                   + (IF v.session.manchester_flowchart = "chest_pain"
                         /\ "hemodinamica" \in f.resources THEN 150 ELSE 0)
                   + (IF v.session.manchester_flowchart = "major_trauma"
                         /\ "centro_trauma" \in f.resources THEN 200 ELSE 0)
        IN  /\ v.score = IF raw < 0 THEN 0 ELSE raw
            /\ v.score >= 0

\* a score floored at 0: a RED encounter 30 km away from a facility above
\* 90% of occupancy
C24Witness ==
    /\ ret.op = "_calculate_facility_score"
    /\ ret.value.session.priority_color = "RED"
    /\ ret.value.coords
    /\ facilities[1].distance_km = 30
    /\ occupancy["f1"] > 90
    /\ ret.value.has_specialty
    /\ ret.value.score = 0


(***************************************************************************)
(* A session leaves the queue.                                             *)
(*   SpecCall: a table of WAITING sessions in the order of their arrival;  *)
(*   one session is called (REST) or discharged, and the request is        *)
(*   recorded in ret with the status the session had.                      *)
(***************************************************************************)
CallTables ==
    {tbl \in UNION {[1..n -> {Row(f, "WAITING", level, t) :
                                 f \in Facilities, level \in {2, 3},
                                 t \in 0..(MaxClock + 1)}] :
                       n \in 1..(MaxRows + 1)} :
        \A i, j \in DOMAIN tbl :
            i < j => tbl[i].arrival_time <= tbl[j].arrival_time}

InitCall ==
    /\ sessions \in CallTables
    /\ occupancy = FacilityOccupancy
    /\ clock = MaxClock + 1
    /\ ret = NoRet
    /\ calls = NoCalls
    /\ facilities = ServiceFacilities
    /\ router = ComplaintSpecialtyMap
    /\ requests = <<>>

\* POST /sessions/{pk}/call_patient/
CallPatientRequest(i) ==
    /\ i \in Ids
    /\ ret.op = ""
    /\ sessions' = IF sessions[i].status # "WAITING" THEN sessions
                   ELSE [sessions EXCEPT ![i].status = "IN_CARE"]
    /\ ret' = [op |-> "call_patient", id |-> i,
               code |-> IF sessions[i].status # "WAITING" THEN 400 ELSE 200,
               value |-> sessions[i].status]
    /\ UNCHANGED <<occupancy, clock, calls, facilities, router, requests>>

\* POST /sessions/{pk}/discharge/
DischargeRequest(i, type) ==
    /\ i \in Ids
    /\ ret.op = ""
    /\ sessions' = [sessions EXCEPT ![i].status = type]
    /\ ret' = [op |-> "discharge", id |-> i, code |-> 200,
               value |-> sessions[i].status]
    /\ UNCHANGED <<occupancy, clock, calls, facilities, router, requests>>

NextCall ==
    \/ \E i \in Ids : CallPatientRequest(i)
    \/ \E i \in Ids, type \in DischargeTypes : DischargeRequest(i, type)

SpecCall == InitCall /\ [][NextCall]_vars

\* the table as it was before the recorded request
BeforeRequest == [sessions EXCEPT ![ret.id].status = ret.value]

\* row a is counted ahead of row b
AheadOf(tbl, a, b) ==
    /\ tbl[a].facility = tbl[b].facility
    /\ \/ tbl[a].priority_level < tbl[b].priority_level
       \/ /\ tbl[a].priority_level = tbl[b].priority_level
          /\ tbl[a].arrival_time < tbl[b].arrival_time

\* C28: when a WAITING session is called or leaves WAITING otherwise, the
\* computed position of every WAITING session of the facility behind it
\* goes down by exactly one and that of every session ahead of it stays;
\* with pairwise distinct arrival times the positions of the n sessions
\* still WAITING at the facility are exactly 1..n.
C28PositionsCloseUp ==
    (/\ ret.op \in {"call_patient", "discharge"}
     /\ ret.value = "WAITING"
     /\ sessions[ret.id].status # "WAITING")
    => LET left == ret.id
           waiting == WaitingAt(sessions, sessions[left].facility)
       IN  /\ \A j \in waiting :
                /\ AheadOf(BeforeRequest, left, j)
                      => CalculateQueuePosition(sessions, j)
                            = CalculateQueuePosition(BeforeRequest, j) - 1
                /\ AheadOf(BeforeRequest, j, left)
                      => CalculateQueuePosition(sessions, j)
                            = CalculateQueuePosition(BeforeRequest, j)
           /\ (\A a, b \in waiting :
                  a # b => sessions[a].arrival_time # sessions[b].arrival_time)
              => {CalculateQueuePosition(sessions, j) : j \in waiting}
                    = 1..Cardinality(waiting)

\* the first of three WAITING sessions of one facility with distinct arrival
\* times has been called: the two behind it are at positions 1 and 2
C28Witness ==
    /\ ret.op = "call_patient"
    /\ ret.code = 200
    /\ Len(sessions) = 3
    /\ \A j \in Ids : sessions[j].facility = sessions[ret.id].facility
    /\ \A j \in Ids \ {ret.id} :
          /\ sessions[j].status = "WAITING"
          /\ AheadOf(BeforeRequest, ret.id, j)
    /\ {CalculateQueuePosition(sessions, j) : j \in Ids \ {ret.id}} = {1, 2}
    /\ {CalculateQueuePosition(BeforeRequest, j) : j \in Ids \ {ret.id}} = {2, 3}


(***************************************************************************)
(* Two call_patient requests for one session, step by step.                *)
(*   SpecRace: each request first reads the row (get_object, or            *)
(*   objects.get in the consumer) and later writes it (save); nothing      *)
(*   locks the row and no transaction is open in between, so the steps of  *)
(*   the two requests interleave freely.  A REST request tests the status  *)
(*   of the row it has read; a WebSocket request tests nothing, and ends   *)
(*   in TypeError before the save when triage_end_time is null.            *)
(***************************************************************************)
\* one WAITING row and two requests, REST or WebSocket, that have not read
\* it yet
InitRace ==
    /\ sessions \in
          {<<[Row("f1", "WAITING", level, 0) EXCEPT !.triage_end_time = ended]>> :
              level \in {2, 3}, ended \in BOOLEAN}
    /\ occupancy = FacilityOccupancy
    /\ clock = 0
    /\ ret = NoRet
    /\ calls = NoCalls
    /\ facilities = ServiceFacilities
    /\ router = ComplaintSpecialtyMap
    /\ requests \in [1..2 -> [kind : {"rest", "ws"}, pc : {"start"},
                                loaded : {<<>>}, code : {0}]]

\* session = self.get_object() / TriageSession.objects.get(id=session_id)
LoadSession(r) ==
    /\ requests[r].pc = "start"
    /\ requests' = [requests EXCEPT ![r].pc = "loaded",
                                    ![r].loaded = <<sessions[1]>>]
    /\ UNCHANGED <<sessions, occupancy, clock, ret, calls, facilities, router>>

\* the row a request writes: the one it has read, with status IN_CARE
Saved(r) == [sessions EXCEPT ![1] = [requests[r].loaded[1] EXCEPT
                                        !.status = "IN_CARE"]]

\* call_patient from the status test on: 400, or the save and 200
RestCallPatient(r) ==
    /\ requests[r].kind = "rest"
    /\ requests[r].pc = "loaded"
    /\ IF requests[r].loaded[1].status # "WAITING"
       THEN /\ requests' = [requests EXCEPT ![r].pc = "done", ![r].code = 400]
            /\ UNCHANGED sessions
       ELSE /\ requests' = [requests EXCEPT ![r].pc = "done", ![r].code = 200]
            /\ sessions' = Saved(r)
    /\ UNCHANGED <<occupancy, clock, ret, calls, facilities, router>>

\* _update_session_status(session_id, 'IN_CARE') after the get
WsUpdateSessionStatus(r) ==
    /\ requests[r].kind = "ws"
    /\ requests[r].pc = "loaded"
    /\ IF ~requests[r].loaded[1].triage_end_time
       THEN /\ requests' = [requests EXCEPT ![r].pc = "done", ![r].code = 500]
            /\ UNCHANGED sessions
       ELSE /\ requests' = [requests EXCEPT ![r].pc = "done", ![r].code = 200]
            /\ sessions' = Saved(r)
    /\ UNCHANGED <<occupancy, clock, ret, calls, facilities, router>>

NextRace ==
    \/ \E r \in DOMAIN requests : LoadSession(r)
    \/ \E r \in DOMAIN requests : RestCallPatient(r)
    \/ \E r \in DOMAIN requests : WsUpdateSessionStatus(r)

SpecRace == InitRace /\ [][NextRace]_vars

\* C29: of two call_patient requests for the same WAITING session, REST or
\* WebSocket, in any interleaving, at most one succeeds and moves the
\* session to IN_CARE; the other one is rejected and writes nothing.
C29AtMostOneCall ==
    Cardinality({r \in DOMAIN requests :
                    requests[r].pc = "done" /\ requests[r].code = 200}) <= 1

====
